---- MODULE Spec2Model ----
(***************************************************************************)
(* The LDIF codec of abook (src/ldif.c).                                   *)
(*                                                                         *)
(* Bytes are the integers 0..255 (the value of the cell read as unsigned   *)
(* char); a C string is the sequence of its bytes without the terminating  *)
(* NUL.  Character classes are those of the "C" locale, which every glibc  *)
(* locale agrees with on the ASCII range.                                  *)
(***************************************************************************)
EXTENDS Integers, Sequences, FiniteSets, TLC

VARIABLES
    mode,        \* which entry point this run exercises: "codec", "size", "parse"
    pc,          \* position of the run
    type,        \* ldif_type_and_value: argument type (a C string)
    val,         \* ldif_type_and_value: the vlen bytes val[0..vlen-1]
    past,        \* the byte the caller's buffer holds at val[vlen]
    tlen,        \* ldif_type_and_value: tlen = strlen(type)
    vlen,        \* ldif_type_and_value: argument vlen
    need,        \* the int value of LDIF_SIZE_NEEDED(tlen, vlen)
    res,         \* "none", "null" (NULL returned) or "ok" (buffer returned)
    enc,         \* what put_type_and_value did: [out, hw, b64, plain]
    buf,         \* the cells of the returned buffer, up to the NUL of line 343
    line,        \* the line handed to str_parse_line (a C string)
    dec          \* what str_parse_line returned: [rc, type, value, vlen]

vars == <<mode, pc, type, val, past, tlen, vlen, need, res, enc, buf, line,
          dec>>

----------------------------------------------------------------------------
(* Bounds of the model *)

\* longest value of the patterned family
MaxVLen == 80
\* longest value of the exhaustive family
MaxShort == 2

----------------------------------------------------------------------------
(* Constants of src/ldif.c *)

LDIF_LINE_WIDTH == 76
CONTINUED_LINE_MARKER == 1
RIGHT2 == 3
RIGHT4 == 15

NUL == 0
NL == 10
SP == 32
COLON == 58
EQUALS == 61

MaxInt == 2147483647
MinInt == (-2147483647) - 1

\* <ctype.h>, "C" locale, on the unsigned char value
isascii(c) == c < 128
isprint(c) == c >= 32 /\ c <= 126
ISSPACE(c) == c \in {9, 10, 11, 12, 13, 32}

\* nib2b64[n]: the 64-symbol alphabet A-Z a-z 0-9 + /
nib2b64(n) ==
    IF n < 26 THEN 65 + n
    ELSE IF n < 52 THEN 97 + (n - 26)
    ELSE IF n < 62 THEN 48 + (n - 52)
    ELSE IF n = 62 THEN 43 ELSE 47

\* b642nib[c], c in 0..127: the inverse table, 0xff for the other characters
b642nib(c) ==
    IF c >= 65 /\ c <= 90 THEN c - 65
    ELSE IF c >= 97 /\ c <= 122 THEN c - 97 + 26
    ELSE IF c >= 48 /\ c <= 57 THEN c - 48 + 52
    ELSE IF c = 43 THEN 62
    ELSE IF c = 47 THEN 63
    ELSE 255

Max(a, b) == IF a >= b THEN a ELSE b

----------------------------------------------------------------------------
(* Loops.  A loop of the source is its body, written as an operator from   *)
(* the loop index and the state before to the state after, applied for     *)
(* lo, lo+1, .., hi in this order.  A body that has left its loop (break,  *)
(* return, or a false loop condition) records it in the state and passes   *)
(* the state on unchanged.  The range is split in halves, and the left     *)
(* half is evaluated before the right one starts.                          *)

RECURSIVE Loop(_, _, _, _)
Loop(Body(_, _), lo, hi, st) ==
    IF lo > hi THEN st
    ELSE IF lo = hi THEN Body(lo, st)
    ELSE LET mid  == (lo + hi) \div 2
             left == Loop(Body, lo, mid, st)
         IN  IF left = left THEN Loop(Body, mid + 1, hi, left) ELSE st

----------------------------------------------------------------------------
(* Encoder: put_type_and_value, src/ldif.c 223-318 *)

\* lines 255-257 (and 276-278, 302-304): the two bytes of a fold
FoldBytes == <<NL, SP>>

\* lines 254-258 (and 275-279, 301-305): fold when the running column count
\* exceeds the line width; st has the fields out and len
PutFold(st) ==
    IF st.len > LDIF_LINE_WIDTH
    THEN [st EXCEPT !.out = st.out \o FoldBytes, !.len = 1]
    ELSE st

\* PlainStep as it would be if the fold took the place of the byte that
\* triggered it
PlainStep_FoldEatsByte(v, i, st) ==
    IF st.b64 THEN st
    ELSE IF ~isascii(v[i]) \/ ~isprint(v[i]) THEN [st EXCEPT !.b64 = TRUE]
    ELSE IF st.len > LDIF_LINE_WIDTH THEN PutFold(st)
    ELSE [st EXCEPT !.out = Append(st.out, v[i]), !.len = st.len + 1]

\* lines 248-260: the body of the plain loop for byte = val + (i - 1);
\* st = [out, len, b64], b64 set by the break at line 252
PlainStep(v, i, st) ==
    IF st.b64 THEN st
    ELSE IF ~isascii(v[i]) \/ ~isprint(v[i]) THEN [st EXCEPT !.b64 = TRUE]
    ELSE LET f == PutFold(st)
         IN  [f EXCEPT !.out = Append(f.out, v[i]), !.len = f.len + 1]

\* lines 248-260: the plain attempt
PlainLoop(v, st) ==
    Loop(LAMBDA i, x : PlainStep(v, i, x), 1, Len(v), st)

\* lines 270-272 (and 296-298): three bytes into 24 bits
Bits24(b0, b1, b2) == b0 * 65536 + b1 * 256 + b2

\* lines 274-284 (and 300-310): the body of the digit loop; st = [out, len,
\* bits].  bits <<= 6 is kept modulo 2^24: the mask 0xfc0000 sees no higher
\* bit.
DigitStep(st) ==
    LET f == PutFold(st)
    IN  [f EXCEPT !.out = Append(f.out, nib2b64(f.bits \div 262144)),
                  !.len = f.len + 1,
                  !.bits = (f.bits * 64) % 16777216]

\* lines 274-284 (and 300-310): the four digits of one group; st = [out, len]
PutGroup(bits, st) ==
    LET r == Loop(LAMBDA i, x : DigitStep(x), 0, 3,
                  [out |-> st.out, len |-> st.len, bits |-> bits])
    IN  [out |-> r.out, len |-> r.len]

\* lines 268-285: the body of the loop for byte = val + 3 * g
FullGroupStep(v, g, st) ==
    PutGroup(Bits24(v[3 * g + 1], v[3 * g + 2], v[3 * g + 3]), st)

\* lines 268-285: the loop runs while byte < stop - 2, Len(v) \div 3 times
FullGroups(v, st) ==
    Loop(LAMBDA g, x : FullGroupStep(v, g, x), 0, (Len(v) \div 3) - 1, st)

\* lines 312-314: *(*out - pad) = '=' for pad, pad-1, .., 1
PadOverwrite(out, pad) ==
    [k \in 1..Len(out) |-> IF k > Len(out) - pad THEN EQUALS ELSE out[k]]

\* lines 288-315: the final partial group and its padding, byte = val + i;
\* st = [out, len]
PutTail(v, i, st) ==
    IF i >= Len(v) THEN st.out
    ELSE LET left == Len(v) - i
             pad  == 3 - left
             b0   == v[i + 1]
             b1   == IF left >= 2 THEN v[i + 2] ELSE 0
         IN  PadOverwrite(PutGroup(Bits24(b0, b1, 0), st).out, pad)

\* lines 262-316: the base64 form, written from save on
PutBase64(t, v) ==
    LET savelen == Len(t) + 1
        start   == [out |-> t \o <<COLON, COLON, SP>>, len |-> savelen + 2]
    IN  PutTail(v, 3 * (Len(v) \div 3), FullGroups(v, start))

\* line 245: val[0]; for an empty value the cell read is the one after the
\* value
FirstByte(v, nx) == IF Len(v) > 0 THEN v[1] ELSE nx

\* line 245: the test on val[0]
FirstForcesB64(c) == isascii(c) /\ (ISSPACE(c) \/ c = COLON)

\* lines 223-318.  out: the bytes from the start of the buffer up to *out on
\* return; hw: the number of buffer cells written; b64: the form chosen;
\* plain: what the plain attempt had written when it ended.
put_type_and_value(t, v, nx) ==
    LET hdr   == t \o <<COLON>>
        start == [out |-> hdr \o <<SP>>, len |-> Len(t) + 1, b64 |-> FALSE]
        att   == IF FirstForcesB64(FirstByte(v, nx))
                 THEN [start EXCEPT !.b64 = TRUE]
                 ELSE PlainLoop(v, start)
        body  == IF att.b64 THEN PutBase64(t, v) ELSE att.out
        final == Append(body, NL)
    IN  [out |-> final, hw |-> Max(Len(att.out), Len(final)),
         b64 |-> att.b64, plain |-> att.out]

----------------------------------------------------------------------------
(* Sizing: LDIF_SIZE_NEEDED and ldif_type_and_value, src/ldif.c 33-37, 321-346 *)

\* int addition of two ints, wrapping modulo 2^32 into MinInt..MaxInt
AddInt(a, b) ==
    IF b > 0 /\ a > MaxInt - b THEN (a + MinInt) + (b + MinInt)
    ELSE IF b < 0 /\ a < MinInt - b THEN (a - MinInt) + (b - MinInt)
    ELSE a + b

\* int multiplication by 2 and by 4, wrapping
Mul2Int(a) == AddInt(a, a)
Mul4Int(a) == Mul2Int(Mul2Int(a))

\* int division by a positive constant: C truncates toward zero
DivInt(a, b) ==
    IF a >= 0 \/ a % b = 0 THEN a \div b ELSE (a \div b) + 1

\* LDIF_BASE64_LEN as it would be without room for the rounded-up group
LDIF_BASE64_LEN_NoRoundUp(n) == AddInt(DivInt(Mul4Int(n), 3), 2)

\* line 33: (((vlen) * 4 / 3) + 3)
LDIF_BASE64_LEN(n) == AddInt(DivInt(Mul4Int(n), 3), 3)

\* lines 35-37, evaluated left to right in int
LDIF_SIZE_NEEDED(tl, vl) ==
    AddInt(AddInt(AddInt(tl, 4), LDIF_BASE64_LEN(vl)),
           Mul2Int(DivInt(AddInt(AddInt(LDIF_BASE64_LEN(vl), tl), 3),
                          LDIF_LINE_WIDTH)))

\* lines 333-335: t = (size_t) n is n for n >= 0 and 2^64 + n for n < 0, so
\* bufsize = t + 1 wraps to 0 (and is <= t) exactly when n = -1
SizeCheckFails(n) == n = -1

\* line 337: a request of 2^64 + n + 1 bytes, n < -1, is more than any
\* address space holds, so malloc returns NULL; other requests may succeed
MallocMustFail(n) == n < -1

----------------------------------------------------------------------------
(* Line joiner: str_getline, src/ldif.c 195-219 *)

\* the byte of C string s at 1-based index k; the terminator after the end
At(s, k) == IF k <= Len(s) THEN s[k] ELSE NUL

\* lines 206-216, seen from cell j of the buffer: strchr stops at j when
\* s[j] is a newline; st = [s, end], end # 0 once line 212 has ended the line
\* at cell end.  After a fold is marked the search goes on from j + 1, which
\* now holds a marker.
JoinStep(j, st) ==
    IF st.end # 0 \/ st.s[j] # NL THEN st
    ELSE IF ISSPACE(At(st.s, j + 1)) /\ At(st.s, j + 1) # NL
    THEN [st EXCEPT !.s = [st.s EXCEPT ![j] = CONTINUED_LINE_MARKER,
                                       ![j + 1] = CONTINUED_LINE_MARKER]]
    ELSE [st EXCEPT !.end = j]

\* lines 195-219, first call on the buffer s: [null, l]
str_getline(s) ==
    IF At(s, 1) = NL \/ At(s, 1) = NUL
    THEN [null |-> TRUE, l |-> <<>>]
    ELSE LET r == Loop(JoinStep, 1, Len(s), [s |-> s, end |-> 0])
         IN  [null |-> FALSE,
              l |-> IF r.end = 0 THEN r.s ELSE SubSeq(r.s, 1, r.end - 1)]

----------------------------------------------------------------------------
(* Decoder: str_parse_line, src/ldif.c 75-177 *)
(* The buffer b is the line followed by its NUL, as a sequence of cells;   *)
(* indices are 1-based.                                                    *)

\* SkipSpace as it would be if it stepped over one white-space cell only
SkipSpace_OneCell(b, k) == IF ISSPACE(b[k]) THEN k + 1 ELSE k

\* the first cell from k on that is not white space (lines 83-85, 112-114);
\* the NUL of the buffer is none
SkipSpace(b, k) ==
    Loop(LAMBDA j, f : IF f # 0 THEN f ELSE IF ISSPACE(b[j]) THEN 0 ELSE j,
         k, Len(b), 0)

\* FindColon as it would be if a space ended the name as a ':' does
FindColon_OrSpace(b, k) ==
    Loop(LAMBDA j, f : IF f # 0 THEN f
                       ELSE IF b[j] = NUL \/ b[j] = COLON \/ b[j] = SP
                       THEN j ELSE 0,
         k, Len(b), 0)

\* line 88: the first cell from k on that holds ':' or NUL
FindColon(b, k) ==
    Loop(LAMBDA j, f : IF f # 0 THEN f
                       ELSE IF b[j] = NUL \/ b[j] = COLON THEN j ELSE 0,
         k, Len(b), 0)

\* the first NUL cell from k on (strchr(s, '\0'), the end of a C string)
FindNUL(b, k) ==
    Loop(LAMBDA j, f : IF f # 0 THEN f ELSE IF b[j] = NUL THEN j ELSE 0,
         k, Len(b), 0)

\* the C string that starts at cell k of b
CStr(b, k) == SubSeq(b, k, FindNUL(b, k) - 1)

\* lines 96-98: the body of the trim loop at cell p; st = [b, done]
TrimStep(p, st) ==
    IF st.done THEN st
    ELSE IF ISSPACE(st.b[p]) THEN [st EXCEPT !.b = [st.b EXCEPT ![p] = NUL]]
    ELSE [st EXCEPT !.done = TRUE]

\* TrimType as it would be if the white space before the ':' were left in
\* place
TrimType_KeepsSpace(b, s, l0) == b

\* lines 96-98: p runs from s - 1 down while p > line
TrimType(b, s, l0) ==
    Loop(LAMBDA i, x : TrimStep(s - i, x), 1, s - l0 - 1,
         [b |-> b, done |-> FALSE]).b

\* StripStep as it would be if the markers were copied like other bytes
StripStep_KeepsMarkers(p, st) ==
    IF st.done THEN st
    ELSE IF st.b[p] = NUL THEN [st EXCEPT !.done = TRUE]
    ELSE [st EXCEPT !.b = [st.b EXCEPT ![st.d] = st.b[p]], !.d = st.d + 1]

\* lines 124-127: the body of the marker loop at cell p; st = [b, d, done]
StripStep(p, st) ==
    IF st.done THEN st
    ELSE IF st.b[p] = NUL THEN [st EXCEPT !.done = TRUE]
    ELSE IF st.b[p] # CONTINUED_LINE_MARKER
    THEN [st EXCEPT !.b = [st.b EXCEPT ![st.d] = st.b[p]], !.d = st.d + 1]
    ELSE st

\* lines 124-128: delete the continued-line markers, compacting in place;
\* the result is [b, d, e], e the cell where the loop met the NUL
StripMarkers(b, s) ==
    LET r == Loop(StripStep, s, Len(b), [b |-> b, d |-> s, done |-> FALSE])
    IN  [b |-> [r.b EXCEPT ![r.d] = NUL], d |-> r.d, e |-> FindNUL(b, s)]

\* the byte in cell i of the buffer b; nx is what memory holds in a cell
\* past the end of the buffer
Cell(b, i, nx) == IF i <= Len(b) THEN b[i] ELSE nx

\* the decode loop reads the characters in cells lo..hi: st.hi is the highest
\* cell touched, st.W the cells the loop has written, st.clob whether some
\* character was read from a cell the loop had written before
Reads(st, lo, hi) ==
    [st EXCEPT !.hi = Max(@, hi),
               !.clob = @ \/ (\E i \in lo..hi : i \in st.W)]

\* the decode loop stores v in cell i
Writes(st, i, v) ==
    [st EXCEPT !.b = IF i <= Len(st.b) THEN [@ EXCEPT ![i] = v] ELSE @,
               !.hi = Max(@, i),
               !.W = @ \cup {i}]

\* BadB64Char as it would be if the NUL passed the test
BadB64Char_AcceptsNUL(c) ==
    c # EQUALS /\ c # NUL /\ (c >= 128 \/ b642nib(c % 128) > 63)

\* lines 136-138: the test on one character of a group
BadB64Char(c) == c # EQUALS /\ (c >= 128 \/ b642nib(c % 128) > 63)

\* lines 135-144: the check loop over p[0 .. GroupChecked-1], returning at the
\* first bad character; the result is the index of that character, or
\* GroupChecked when the loop ran to its end
GroupChecked == 3
RECURSIVE GroupBadFrom(_, _, _, _)
GroupBadFrom(b, p, i, nx) ==
    IF i >= GroupChecked THEN GroupChecked
    ELSE IF BadB64Char(Cell(b, p + i, nx)) THEN i
    ELSE GroupBadFrom(b, p, i + 1, nx)
GroupIsBad(b, p, nx) == GroupBadFrom(b, p, 0, nx) < GroupChecked

\* bitwise or of two bytes
RECURSIVE BitOr(_, _)
BitOr(x, y) ==
    IF x = 0 THEN y
    ELSE IF y = 0 THEN x
    ELSE 2 * BitOr(x \div 2, y \div 2) + (IF x % 2 = 1 \/ y % 2 = 1 THEN 1 ELSE 0)

\* char nib = b642nib[c & 0x7f], as the byte it is stored as
NibOf(c) == b642nib(c % 128)

\* ShrNib as it would be if the digit were or-ed in without the shift
ShrNib_Unshifted(n, k, sgn) ==
    IF n >= 128 /\ sgn THEN 255 ELSE n

\* nib >> k stored into a char cell: an arithmetic shift when char is signed
\* and the table entry is 0xff
ShrNib(n, k, sgn) ==
    IF n >= 128 /\ sgn THEN 255 ELSE n \div (2 ^ k)

\* lines 147-148: the first digit; st is the loop state [b, vlen, rc, done,
\* hi, W, clob, ord]
FirstDigit(st, p, byte, nx) ==
    Writes(Reads(st, p, p), byte, (NibOf(Cell(st.b, p, nx)) * 4) % 256)

\* lines 151-152: the two stores of the second digit, nib n
SecondStores(st, byte, n, sgn, nx) ==
    Writes(Writes(st, byte, BitOr(Cell(st.b, byte, nx), ShrNib(n, 4, sgn))),
           byte + 1, ((n % (RIGHT4 + 1)) * 16) % 256)

\* lines 150-152: the second digit
SecondDigit(st, p, byte, sgn, nx) ==
    SecondStores(Reads(st, p + 1, p + 1), byte, NibOf(Cell(st.b, p + 1, nx)),
                 sgn, nx)

\* lines 159-160: the two stores of the third digit, nib n
ThirdStores(st, byte, n, sgn, nx) ==
    Writes(Writes(st, byte + 1,
                  BitOr(Cell(st.b, byte + 1, nx), ShrNib(n, 2, sgn))),
           byte + 2, ((n % (RIGHT2 + 1)) * 64) % 256)

\* lines 162-167: the fourth digit, p[3] read; the result is [st, got, brk]:
\* the state after, the bytes gained, whether the loop was left by break
FourthDigit(st, p, byte, nx) ==
    IF Cell(st.b, p + 3, nx) = EQUALS
    THEN [st |-> st, got |-> 2, brk |-> TRUE]
    ELSE [st |-> Writes(st, byte + 2,
                        BitOr(Cell(st.b, byte + 2, nx),
                              NibOf(Cell(st.b, p + 3, nx)))),
          got |-> 3, brk |-> FALSE]

\* lines 154-167: the third digit, p[2] read, and what follows it
ThirdDigit(st, p, byte, sgn, nx) ==
    IF Cell(st.b, p + 2, nx) = EQUALS
    THEN [st |-> st, got |-> 1, brk |-> TRUE]
    ELSE FourthDigit(Reads(ThirdStores(st, byte, NibOf(Cell(st.b, p + 2, nx)),
                                       sgn, nx),
                           p + 3, p + 3),
                     p, byte, nx)

\* lines 146-167: one group decoded in place, each statement in order
DecodeGroup(st, p, byte, sgn, nx) ==
    ThirdDigit(Reads(SecondDigit(FirstDigit(st, p, byte, nx), p, byte, sgn, nx),
                     p + 2, p + 2),
               p, byte, sgn, nx)

\* lines 135-144: the reads of the check loop, which met its first bad
\* character at p[bad] or none (bad = GroupChecked); ord records byte <= p
Checked(st, p, byte, bad) ==
    Reads([st EXCEPT !.ord = @ /\ byte <= p],
          p, IF bad < GroupChecked THEN p + bad ELSE p + GroupChecked - 1)

\* line 142: return (-1)
Rejected(st) == [st EXCEPT !.rc = -1, !.done = TRUE]

\* lines 134, 155, 163: *vlen after the group g, and whether the loop goes on
Gained(g) == [g.st EXCEPT !.vlen = @ + g.got, !.done = g.brk]

\* lines 135-169: one pass of the decode loop on the group at p
DecodePass(st, p, byte, bad, sgn, nx) ==
    IF bad < GroupChecked THEN Rejected(Checked(st, p, byte, bad))
    ELSE Gained(DecodeGroup(Checked(st, p, byte, bad), p, byte, sgn, nx))

\* DecodeStep as it would be if byte advanced by 5 cells a pass
DecodeStep_ByteByFive(s, stop, sgn, nx, k, st) ==
    IF st.done THEN st
    ELSE IF s + 4 * k >= stop THEN [st EXCEPT !.done = TRUE]
    ELSE DecodePass(st, s + 4 * k, s + 5 * k,
                    GroupBadFrom(st.b, s + 4 * k, 0, nx), sgn, nx)

\* lines 134-170: the body of the decode loop for its k-th pass, with
\* p = s + 4k and byte = s + 3k; done once the loop was left
DecodeStep(s, stop, sgn, nx, k, st) ==
    IF st.done THEN st
    ELSE IF s + 4 * k >= stop THEN [st EXCEPT !.done = TRUE]
    ELSE DecodePass(st, s + 4 * k, s + 3 * k,
                    GroupBadFrom(st.b, s + 4 * k, 0, nx), sgn, nx)

\* lines 132-170: the decode loop on the buffer b, of which the cells up to
\* hi have been touched before; the result is the loop state
DecodeLoop(b, s, stop, hi, sgn, nx) ==
    Loop(LAMBDA k, x : DecodeStep(s, stop, sgn, nx, k, x), 0, (stop - s) \div 4,
         [b |-> b, vlen |-> 0, rc |-> 0, done |-> FALSE,
          hi |-> hi, W |-> {}, clob |-> FALSE, ord |-> TRUE])

\* what str_parse_line hands back: [rc, type, value, vlen, b, hi, clob,
\* ord].  type, value, vlen: what the caller's variables *type, *value (the
\* first *vlen bytes there) and *vlen hold after the call; b: the cells of
\* the line buffer on return; hi: the highest cell read or written; clob
\* and ord: as the decode loop left them.
\* NoDec: the record before the call, rc not yet returned
NoDec ==
    [rc |-> 1, type |-> <<>>, value |-> <<>>, vlen |-> 0,
     b |-> <<>>, hi |-> 0, clob |-> FALSE, ord |-> TRUE]

\* lines 92, 120: return (-1) with *type stored (line 86) at cell l0 and
\* *value and *vlen as they were before the call
Failed(b, hi, l0) ==
    [rc |-> -1, type |-> CStr(b, l0),
     value |-> NoDec.value, vlen |-> NoDec.vlen,
     b |-> b, hi |-> hi, clob |-> FALSE, ord |-> TRUE]

\* lines 142, 176: the return with rc after the decode loop, state w:
\* *type (line 86), *value = s (line 130) and *vlen (line 134) are stored
Returned(rc, w, l0, s, nx) ==
    [rc |-> rc, type |-> CStr(w.b, l0),
     value |-> [j \in 1..w.vlen |-> Cell(w.b, s + j - 1, nx)],
     vlen |-> w.vlen, b |-> w.b, hi |-> w.hi, clob |-> w.clob, ord |-> w.ord]

\* lines 131-171 and 176 after the decode loop has ended in state r: the
\* return of line 142, or s[*vlen] = '\0' and return (0)
AfterLoop(r, l0, s, nx) ==
    IF r.rc # 0 THEN Returned(-1, r, l0, s, nx)
    ELSE Returned(0, Writes(r, s + r.vlen, NUL), l0, s, nx)

\* lines 130-176 after the markers were deleted (m), the value at cell s
ParseValue(m, l0, s, b64, sgn, nx) ==
    IF b64 THEN AfterLoop(DecodeLoop(m.b, s, m.d, m.e, sgn, nx), l0, s, nx)
    ELSE [rc |-> 0, type |-> CStr(m.b, l0),
          value |-> SubSeq(m.b, s, m.d - 1), vlen |-> m.d - s,
          b |-> m.b, hi |-> m.e, clob |-> FALSE, ord |-> TRUE]

\* lines 116-176 after the white space behind the colon(s) was skipped
ParseRest(b, l0, s, b64, sgn, nx) ==
    IF b[s] = NUL THEN Failed(b, s, l0)
    ELSE ParseValue(StripMarkers(b, s), l0, s, b64, sgn, nx)

\* lines 101-176 on the buffer b with the name ended at cell s0
ParseSeparator(b, l0, s0, sgn, nx) ==
    IF b[s0 + 1] = COLON
    THEN ParseRest(b, l0, SkipSpace(b, s0 + 2), TRUE, sgn, nx)
    ELSE ParseRest(b, l0, SkipSpace(b, s0 + 1), FALSE, sgn, nx)

\* lines 88-176 on the buffer b, the name starting at cell l0 and the search
\* of line 88 ending at cell s0
ParseName(b, l0, s0, sgn, nx) ==
    IF b[s0] = NUL THEN Failed(b, s0, l0)
    ELSE ParseSeparator([TrimType(b, s0, l0) EXCEPT ![s0] = NUL], l0, s0,
                        sgn, nx)

\* lines 82-176 on the buffer b, the name starting at cell l0
ParseFrom(b, l0, sgn, nx) == ParseName(b, l0, FindColon(b, l0), sgn, nx)

\* lines 75-177 on the C string ln, kept in a buffer with its NUL
ParseBuffer(b, sgn, nx) == ParseFrom(b, SkipSpace(b, 1), sgn, nx)
str_parse_line(ln, sgn, nx) == ParseBuffer(Append(ln, NUL), sgn, nx)

----------------------------------------------------------------------------
(* Inputs *)

Rep(c, n) == [i \in 1..n |-> c]

\* attribute names: the empty one, "cn", "uid", "a b", and names long enough to put the
\* first fold at the start of the value
Types ==
    {<<>>, <<99, 110>>, <<117, 105, 100>>, <<97, 32, 98>>}
        \cup {Rep(116, n) : n \in {71, 73, 74, 77}}

\* values of up to MaxShort bytes over these bytes: NUL, the marker, space,
\* ':', 'a', 0xff
ShortBytes == {0, 1, 32, 58, 97, 255}
RECURSIVE SeqsUpTo(_, _)
SeqsUpTo(S, n) ==
    IF n = 0 THEN {<<>>}
    ELSE LET shorter == SeqsUpTo(S, n - 1)
         IN  shorter \cup {Append(q, c) : q \in shorter, c \in S}

\* values of 1..MaxVLen bytes: 'a' everywhere but one byte, first or last,
\* which is a space, 'b' or 0xff
MarkBytes == {32, 98, 255}
Marked(n, k, c) == [i \in 1..n |-> IF i = k THEN c ELSE 97]
LongValues ==
    UNION {{Marked(n, k, c) : k \in {1, n}, c \in MarkBytes} : n \in 1..MaxVLen}

\* "John Doe" and three bytes 0xff
ExampleValues == {<<74, 111, 104, 110, 32, 68, 111, 101>>, <<255, 255, 255>>}

Values == SeqsUpTo(ShortBytes, MaxShort) \cup LongValues \cup ExampleValues

\* what the caller's buffer may hold after an empty value
PastBytes == {NUL, SP, 97}

\* what memory may hold in the cell after the terminator of a line
AfterBytes == {NUL, 97}

NoEnc == [out |-> <<>>, hw |-> 0, b64 |-> FALSE, plain |-> <<>>]

----------------------------------------------------------------------------
(* The codec run: ldif_type_and_value, then str_getline on its output, then *)
(* str_parse_line on the joined line                                        *)

Init ==
    /\ mode = "codec"
    /\ pc = "start"
    /\ type \in Types
    /\ val \in Values
    /\ past \in (IF Len(val) = 0 THEN PastBytes ELSE {NUL})
    /\ tlen = Len(type)
    /\ vlen = Len(val)
    /\ need = 0
    /\ res = "none"
    /\ enc = NoEnc
    /\ buf = <<>>
    /\ line = <<>>
    /\ dec = NoDec

\* lines 321-346
ldif_type_and_value ==
    /\ mode = "codec"
    /\ pc = "start"
    /\ need' = LDIF_SIZE_NEEDED(tlen, vlen)
    /\ \E got \in BOOLEAN :
         IF got /\ ~SizeCheckFails(need') /\ ~MallocMustFail(need')
         THEN /\ res' = "ok"
              /\ enc' = put_type_and_value(type, val, past)
              /\ buf' = Append(enc'.out, NUL)
              /\ pc' = "encoded"
         ELSE /\ res' = "null"
              /\ enc' = enc
              /\ buf' = buf
              /\ pc' = "done"
    /\ UNCHANGED <<mode, type, val, past, tlen, vlen, line, dec>>

\* the number of cells of the buffer the call has written
Written == Max(enc.hw, Len(buf))

\* lines 195-219 on the returned string
GetLine ==
    /\ mode = "codec"
    /\ pc = "encoded"
    /\ LET r == str_getline(CStr(buf, 1))
       IN  IF r.null THEN pc' = "done" /\ line' = line
           ELSE pc' = "joined" /\ line' = r.l
    /\ UNCHANGED <<mode, type, val, past, tlen, vlen, need, res, enc, buf, dec>>

\* lines 75-177 on the line, in a build where plain char is signed (sgn) or
\* unsigned, with nx in the memory after the line's buffer
ParseLine ==
    /\ pc = "joined"
    /\ \E sgn \in BOOLEAN, nx \in AfterBytes :
           dec' = str_parse_line(line, sgn, nx)
    /\ pc' = "parsed"
    /\ UNCHANGED <<mode, type, val, past, tlen, vlen, need, res, enc, buf, line>>

Next == ldif_type_and_value \/ GetLine \/ ParseLine

Spec == Init /\ [][Next]_vars

----------------------------------------------------------------------------
(* The sizing run: ldif_type_and_value up to its malloc, src/ldif.c        *)
(* 327-339, on lengths too large for the value to be written out           *)

\* strlen(type) and vlen as the caller may pass them
SizeTLens == 0..7 \cup {73, 1000}
SizeVLens ==
    {0, 1, 2, 3, 100, 1000000,
     536870910, 536870911, 536870912, 536870913,
     1073741823, 1073741824, 1073741825, 1500000000,
     MaxInt - 1, MaxInt}

InitSize ==
    /\ mode = "size"
    /\ pc = "start"
    /\ type = <<>>
    /\ val = <<>>
    /\ past = NUL
    /\ tlen \in SizeTLens
    /\ vlen \in SizeVLens
    /\ need = 0
    /\ res = "none"
    /\ enc = NoEnc
    /\ buf = <<>>
    /\ line = <<>>
    /\ dec = NoDec

\* lines 331-339: the size, its check, and malloc
ldif_alloc ==
    /\ mode = "size"
    /\ pc = "start"
    /\ need' = LDIF_SIZE_NEEDED(tlen, vlen)
    /\ \E got \in BOOLEAN :
         res' = IF got /\ ~SizeCheckFails(need') /\ ~MallocMustFail(need')
                THEN "ok" ELSE "null"
    /\ pc' = "done"
    /\ UNCHANGED <<mode, type, val, past, tlen, vlen, enc, buf, line, dec>>

NextSize == ldif_alloc

SpecSize == InitSize /\ [][NextSize]_vars

----------------------------------------------------------------------------
(* The parse run: str_parse_line on a given line *)

\* longest tail of a value text
MaxText == 4

\* 'A', '/', '=', '!', the marker, a high byte, space
TextBytes == {65, 47, 61, 33, CONTINUED_LINE_MARKER, 200, SP}

\* "cn:: ", "cn: "
Prefixes ==
    {<<99, 110, COLON, COLON, SP>>, <<99, 110, COLON, SP>>}

\* nothing, or the full group "QUJD"
Heads == {<<>>, <<81, 85, 74, 68>>}

TextLines ==
    {p \o h \o t : p \in Prefixes, h \in Heads,
                   t \in SeqsUpTo(TextBytes, MaxText)}

\* lines put together from white space before the name, a name ("", "cn",
\* "a b", 'c' marker 'n'), white space before the separator, no, one or two
\* colons, white space after them, and a remainder
Leads == {<<>>, <<SP>>, <<9, SP>>}
Names == {<<>>, <<99, 110>>, <<97, SP, 98>>, <<99, CONTINUED_LINE_MARKER, 110>>}
Gaps == {<<>>, <<SP>>, <<SP, 9>>}
Seps == {<<>>, <<COLON>>, <<COLON, COLON>>}
Blanks == {<<>>, <<SP>>, <<9, SP>>}

\* remainders: nothing, "x", "x ", "a:b", one and two markers, marker space
\* 'x', "QUJD", "QQ==", "QUI=", "QR==", "QUJDQUI=", "//8=", "+/9a", and
\* folded forms of "QUJD" and "QUJDQUI="
Rests ==
    {<<>>, <<120>>, <<120, SP>>, <<97, COLON, 98>>,
     <<CONTINUED_LINE_MARKER>>,
     <<CONTINUED_LINE_MARKER, CONTINUED_LINE_MARKER>>,
     <<CONTINUED_LINE_MARKER, SP, 120>>,
     <<81, 85, 74, 68>>, <<81, 81, EQUALS, EQUALS>>, <<81, 85, 73, EQUALS>>,
     <<81, 82, EQUALS, EQUALS>>,
     <<81, 85, 74, 68, 81, 85, 73, EQUALS>>,
     <<47, 47, 56, EQUALS>>, <<43, 47, 57, 97>>,
     <<81, 85, CONTINUED_LINE_MARKER, CONTINUED_LINE_MARKER, 74, 68>>,
     <<81, 85, 74, 68, 81, CONTINUED_LINE_MARKER, CONTINUED_LINE_MARKER,
       85, 73, EQUALS>>}

EdgeLines ==
    {l \o n \o g \o c \o w \o r :
        l \in Leads, n \in Names, g \in Gaps, c \in Seps, w \in Blanks,
        r \in Rests}

\* "cn: John Doe", "cn:: Sm9obiBEb2U=", "cn:   ", "noseparatorhere",
\* "cn:: not-valid-base64!"
ExampleLines ==
    {<<99, 110, 58, 32, 74, 111, 104, 110, 32, 68, 111, 101>>,
     <<99, 110, 58, 58, 32, 83, 109, 57, 111, 98, 105, 66, 69, 98, 50, 85, 61>>,
     <<99, 110, 58, 32, 32, 32>>,
     <<110, 111, 115, 101, 112, 97, 114, 97, 116, 111, 114, 104, 101, 114, 101>>,
     <<99, 110, 58, 58, 32, 110, 111, 116, 45, 118, 97, 108, 105, 100, 45,
       98, 97, 115, 101, 54, 52, 33>>}

ParseLines == TextLines \cup EdgeLines \cup ExampleLines

InitParse ==
    /\ mode = "parse"
    /\ pc = "joined"
    /\ type = <<>>
    /\ val = <<>>
    /\ past = NUL
    /\ tlen = 0
    /\ vlen = 0
    /\ need = 0
    /\ res = "none"
    /\ enc = NoEnc
    /\ buf = <<>>
    /\ line \in ParseLines
    /\ dec = NoDec

NextParse == ParseLine

SpecParse == InitParse /\ [][NextParse]_vars

----------------------------------------------------------------------------
(* Reference notions the properties are stated with *)

\* the standard base64 alphabet, by character code
StdAlphabet ==
    <<65, 66, 67, 68, 69, 70, 71, 72, 73, 74, 75, 76, 77,
      78, 79, 80, 81, 82, 83, 84, 85, 86, 87, 88, 89, 90,
      97, 98, 99, 100, 101, 102, 103, 104, 105, 106, 107, 108, 109,
      110, 111, 112, 113, 114, 115, 116, 117, 118, 119, 120, 121, 122,
      48, 49, 50, 51, 52, 53, 54, 55, 56, 57, 43, 47>>

\* the number of '=' a standard base64 text of n bytes ends with
StdPad(n) == IF n % 3 = 0 THEN 0 ELSE 3 - (n % 3)

\* the standard base64 text of the byte sequence v
StdBase64(v) ==
    LET n     == Len(v)
        m     == 4 * ((n + 2) \div 3)
        at(i) == IF i <= n THEN v[i] ELSE 0
        w(g)  == at(3 * g + 1) * 65536 + at(3 * g + 2) * 256 + at(3 * g + 3)
        six(q) == (w(q \div 4) \div (64 ^ (3 - (q % 4)))) % 64
    IN  [q \in 1..m |-> IF q > m - StdPad(n) THEN EQUALS
                        ELSE StdAlphabet[six(q - 1) + 1]]

\* s without its folds: every newline that a space follows is deleted
\* together with that space
Unfold(s) ==
    LET nl(j) == s[j] = NL /\ j < Len(s) /\ s[j + 1] = SP
        gone(j) == nl(j) \/ (j > 1 /\ nl(j - 1))
    IN  Loop(LAMBDA j, acc : IF gone(j) THEN acc ELSE Append(acc, s[j]),
             1, Len(s), <<>>)

\* the character stream before folding: the prefix and the payload
PreFold(t, v, b64) ==
    IF b64 THEN t \o <<COLON, COLON, SP>> \o StdBase64(v)
    ELSE t \o <<COLON, SP>> \o v

\* every newline of s but the last is followed by a space
FoldsIntact(s) ==
    \A j \in 1..(Len(s) - 1) : s[j] = NL => s[j + 1] = SP

\* no physical line of s is longer than w: every w + 1 consecutive
\* characters include a newline
LinesWithin(s, w) ==
    \A j \in 1..(Len(s) - w) : \E k \in j..(j + w) : s[k] = NL

\* the number of cells of s that hold c
Count(s, c) == Cardinality({j \in 1..Len(s) : s[j] = c})

\* a valid attribute name: non-empty, no colon, no white space at either end
ValidType(t) ==
    /\ Len(t) > 0
    /\ \A j \in 1..Len(t) : t[j] # COLON
    /\ ~ISSPACE(t[1]) /\ ~ISSPACE(t[Len(t)])

\* what the representation choice is specified to be for the value v
WantsBase64(v) ==
    \/ Len(v) > 0 /\ v[1] < 128 /\ (v[1] \in {9, 10, 11, 12, 13, 32} \/ v[1] = COLON)
    \/ \E j \in 1..Len(v) : v[j] >= 128 \/ v[j] < 32 \/ v[j] = 127

Encoded == mode = "codec" /\ res = "ok"

----------------------------------------------------------------------------
(* Properties *)

\* C1: round trip.  For every value and every valid attribute name, the
\* encoder output, joined by str_getline and parsed by str_parse_line,
\* gives back the type, the value and its length.
C1_RoundTrip ==
    (mode = "codec" /\ pc = "parsed" /\ ValidType(type))
        => /\ dec.rc = 0
           /\ dec.type = type
           /\ dec.value = val
           /\ dec.vlen = vlen

\* C2: line width.  For a type with len(t) + 3 <= 76, no physical line of
\* the encoder output is longer than 76 characters, on either path.
C2_LineWidth ==
    (Encoded /\ tlen + 3 <= LDIF_LINE_WIDTH)
        => LinesWithin(enc.out, LDIF_LINE_WIDTH)

\* C3: folding law.  Every physical line after the first begins with the
\* one fold space, and deleting the folds gives the pre-fold stream (prefix
\* and plain value, or prefix and the complete padded base64 text) followed
\* by the final newline.
C3_FoldingLaw ==
    Encoded
        => /\ FoldsIntact(enc.out)
           /\ Unfold(enc.out) = Append(PreFold(type, val, enc.b64), NL)

\* C4: base64 padding law.  On the base64 path the padding replaces the
\* last 1 or 2 base64 characters and nothing else: the folds are intact,
\* the unfolded text has 4 characters per group, ends with 0, 2 or 1 '='
\* for vlen mod 3 = 0, 1 or 2, and '=' is nowhere else.
C4_PaddingLaw ==
    (Encoded /\ enc.b64)
        => LET u    == Unfold(enc.out)
               txt  == SubSeq(u, tlen + 4, Len(u) - 1)
               m    == 4 * ((vlen + 2) \div 3)
               npad == StdPad(vlen)
           IN  /\ FoldsIntact(enc.out)
               /\ Len(txt) = m
               /\ \A q \in 1..m : (txt[q] = EQUALS) <=> (q > m - npad)
               /\ Count(SubSeq(enc.out, tlen + 1, Len(enc.out)), EQUALS) = npad

\* C5: representation choice.  The base64 form is emitted if and only if
\* the first value byte is ASCII white space or ':' or some value byte is
\* non-ASCII or non-printable; otherwise the plain form is.
C5_RepresentationChoice ==
    Encoded
        => /\ enc.b64 <=> WantsBase64(val)
           /\ SubSeq(enc.out, 1, tlen + 2)
                  = type \o (IF WantsBase64(val) THEN <<COLON, COLON>>
                             ELSE <<COLON, SP>>)

\* C6: base64 path output.  Whenever the base64 form is chosen, the output
\* with the folds removed is the type, ":: ", the standard base64 text of
\* the value, and one newline.
C6_Base64Output ==
    (Encoded /\ enc.b64)
        => Unfold(enc.out)
               = type \o <<COLON, COLON, SP>> \o StdBase64(val) \o <<NL>>

\* C7: plain path output.  Whenever the plain form is chosen, the output
\* with the folds removed is the type, ": ", the value bytes unchanged, and
\* one newline; the buffer holds the output followed by the NUL terminator.
C7_PlainOutput ==
    (Encoded /\ ~enc.b64)
        => /\ Unfold(enc.out) = type \o <<COLON, SP>> \o val \o <<NL>>
           /\ buf = Append(enc.out, NUL)
           /\ FindNUL(buf, 1) = Len(buf)

\* C7 witness: a plain value long enough to be folded has been encoded
C7_Witness ==
    /\ Encoded /\ ~enc.b64 /\ type = <<99, 110>>
    /\ vlen > LDIF_LINE_WIDTH
    /\ Len(enc.out) > tlen + 2 + vlen + 1

\* C8: sizing never under-allocates.  The cells written (either path, the
\* abandoned plain attempt, the folds, the newline and the NUL) are at most
\* LDIF_SIZE_NEEDED(tlen, vlen) + 1.
C8_NeverUnderAllocates ==
    Encoded => Written <= need + 1

\* C8 witness: a base64 output that fills the allocation to the last cell,
\* after a plain attempt that was abandoned past its first fold
C8_Witness ==
    /\ Encoded /\ enc.b64
    /\ Written = need + 1
    /\ Len(enc.plain) > LDIF_LINE_WIDTH + 2
    /\ Count(enc.out, NL) > 1

\* a + b for naturals, or -1 when an operand is -1 or the sum exceeds MaxInt
SumOrOver(a, b) ==
    IF a < 0 \/ b < 0 \/ a > MaxInt - b THEN -1 ELSE a + b

\* the size formula in exact arithmetic (floor(4n/3) = n + floor(n/3)), or
\* -1 when the exact size exceeds MaxInt
ExactBase64Len(n) == SumOrOver(SumOrOver(n, n \div 3), 3)
ExactNeeded(tl, vl) ==
    LET b == ExactBase64Len(vl)
        w == SumOrOver(SumOrOver(b, tl), 3)
    IN  SumOrOver(SumOrOver(SumOrOver(tl, 4), b),
                  IF w < 0 THEN -1 ELSE 2 * (w \div LDIF_LINE_WIDTH))

\* some step of the int evaluation of the size leaves the int range
ExactDoesNotFit(tl, vl) ==
    vl > MaxInt \div 4 \/ ExactNeeded(tl, vl) < 0

\* C9: overflow-checked sizing.  Whenever the exact worst-case size does not
\* fit the int arithmetic, ldif_type_and_value returns NULL, and a buffer it
\* allocates is never smaller than the exact worst-case size plus the NUL.
C9_OverflowChecked ==
    (mode = "size" /\ pc = "done")
        => /\ ExactDoesNotFit(tlen, vlen) => res = "null"
           /\ res = "ok" => /\ ExactNeeded(tlen, vlen) >= 0
                            /\ need >= ExactNeeded(tlen, vlen)

\* the text of a line after its first ':', a second ':' and the white space
\* that follows, without the continuation markers
FirstColon(ln) ==
    CHOOSE j \in 1..Len(ln) :
        ln[j] = COLON /\ \A i \in 1..(j - 1) : ln[i] # COLON
IsDoubleColon(ln) ==
    /\ \E j \in 1..Len(ln) : ln[j] = COLON
    /\ FirstColon(ln) < Len(ln)
    /\ ln[FirstColon(ln) + 1] = COLON
ValueText(ln) ==
    LET from  == FirstColon(ln) + 2
        inval == {j \in from..Len(ln) : ~ISSPACE(ln[j])}
        start == IF inval = {} THEN Len(ln) + 1
                 ELSE CHOOSE j \in inval : \A i \in inval : j <= i
    IN  SelectSeq(SubSeq(ln, start, Len(ln)),
                  LAMBDA c : c # CONTINUED_LINE_MARKER)

\* c is a character of the 64-symbol alphabet
InAlphabet(c) == \E i \in 1..64 : StdAlphabet[i] = c

\* C10: invalid base64 character.  For a double-colon line, if any
\* character of the marker-stripped value text is neither '=' nor in the
\* alphabet, str_parse_line returns -1.
C10_InvalidBase64Char ==
    (mode = "parse" /\ pc = "parsed" /\ IsDoubleColon(line)
        /\ \E q \in 1..Len(ValueText(line)) :
               /\ ValueText(line)[q] # EQUALS
               /\ ~InAlphabet(ValueText(line)[q]))
        => dec.rc = -1

----------------------------------------------------------------------------
(* Properties of the decoder, stated on the line as it was handed over *)

\* the line has a separator
HasColon(ln) == \E j \in 1..Len(ln) : ln[j] = COLON

\* the least and the greatest element of a non-empty set of integers
Least(S) == CHOOSE j \in S : \A i \in S : j <= i
Greatest(S) == CHOOSE j \in S : \A i \in S : j >= i

\* the text between the leading white space and the first ':', without the
\* white space in front of the ':'
TypeText(ln) ==
    LET inname == {j \in 1..(FirstColon(ln) - 1) : ~ISSPACE(ln[j])}
    IN  IF inname = {} THEN <<>>
        ELSE SubSeq(ln, Least(inname), Greatest(inname))

\* the text after the single or double colon and the white space that
\* follows it, markers included
Rest(ln) ==
    LET from  == FirstColon(ln) + (IF IsDoubleColon(ln) THEN 2 ELSE 1)
        inval == {j \in from..Len(ln) : ~ISSPACE(ln[j])}
    IN  IF inval = {} THEN <<>> ELSE SubSeq(ln, Least(inval), Len(ln))

\* t without its continuation markers
Unmarked(t) == SelectSeq(t, LAMBDA c : c # CONTINUED_LINE_MARKER)

\* t is well-formed standard base64: at least one group, whole groups only,
\* characters of the alphabet, and '=' only as the last or the last two
\* characters
WellFormed(t) ==
    /\ Len(t) > 0
    /\ Len(t) % 4 = 0
    /\ \A q \in 1..Len(t) :
          \/ InAlphabet(t[q])
          \/ t[q] = EQUALS /\ q = Len(t)
          \/ t[q] = EQUALS /\ q = Len(t) - 1 /\ t[Len(t)] = EQUALS

\* the number of bytes a well-formed text stands for: 3 for a group without
\* '=', 1 for a final group with '=' in 3rd position, 2 for a final group
\* with '=' in 4th position only
StdDecodedLen(t) ==
    LET n == Len(t)
    IN  IF t[n - 1] = EQUALS THEN 3 * (n \div 4) - 2
        ELSE IF t[n] = EQUALS THEN 3 * (n \div 4) - 1
        ELSE 3 * (n \div 4)

\* the value (0..63) of a character of the alphabet
StdIndex(c) == (CHOOSE i \in 1..64 : StdAlphabet[i] = c) - 1

\* the standard base64 decoding of a well-formed text
StdDecode(t) ==
    LET six(q) == IF t[q] = EQUALS THEN 0 ELSE StdIndex(t[q])
        w(g)   == six(4 * g + 1) * 262144 + six(4 * g + 2) * 4096
                      + six(4 * g + 3) * 64 + six(4 * g + 4)
    IN  [j \in 1..StdDecodedLen(t) |->
            (w((j - 1) \div 3) \div (256 ^ (2 - ((j - 1) % 3)))) % 256]

Parsed == pc = "parsed"

\* C11: base64 decode result.  For a double-colon line whose text (after the
\* white space, continuation markers removed) is well-formed standard base64,
\* str_parse_line succeeds, vlen is 3 per full group plus 1 or 2 for a final
\* group with '=' in 3rd or only in 4th position, and the vlen bytes of the
\* value are the standard base64 decoding of the text.
C11_Base64Decode ==
    (Parsed /\ IsDoubleColon(line) /\ WellFormed(ValueText(line)))
        => /\ dec.rc = 0
           /\ dec.vlen = StdDecodedLen(ValueText(line))
           /\ dec.value = StdDecode(ValueText(line))

\* C11 witness: "cn:: Sm9obiBEb2U=" has been decoded to "John Doe", 8 bytes
C11_Witness ==
    /\ Parsed
    /\ line = <<99, 110, 58, 58, 32, 83, 109, 57, 111, 98, 105, 66, 69, 98,
                50, 85, 61>>
    /\ dec.rc = 0
    /\ dec.type = <<99, 110>>
    /\ dec.value = <<74, 111, 104, 110, 32, 68, 111, 101>>
    /\ dec.vlen = 8

\* C12 as stated: plain decode result.  For a line with a single ':' and a
\* non-empty remainder, str_parse_line succeeds, the type is the text
\* between the leading white space and the ':' without trailing white space,
\* the value is the text after the ':' and the white space following it, and
\* vlen is its length.
C12_PlainDecode_AsStated ==
    (Parsed /\ HasColon(line) /\ ~IsDoubleColon(line) /\ Rest(line) # <<>>)
        => /\ dec.rc = 0
           /\ dec.type = TypeText(line)
           /\ dec.value = Rest(line)
           /\ dec.vlen = Len(Rest(line))

\* C12: plain decode result.  For a line with a single ':' and a non-empty
\* remainder, str_parse_line succeeds, the type is the text between the
\* leading white space and the ':' without trailing white space, the value
\* is the text after the ':' and the white space following it with every
\* continuation-marker byte deleted, and vlen is the length of that value.
C12_PlainDecode ==
    (Parsed /\ HasColon(line) /\ ~IsDoubleColon(line) /\ Rest(line) # <<>>)
        => /\ dec.rc = 0
           /\ dec.type = TypeText(line)
           /\ dec.value = Unmarked(Rest(line))
           /\ dec.vlen = Len(Unmarked(Rest(line)))

\* C12 witness: tab, space, "a b", space, tab, ':', space, "x " has been
\* decoded to ("a b", "x ", 2)
C12_Witness ==
    /\ Parsed
    /\ line = <<9, SP, 97, SP, 98, SP, 9, COLON, SP, 120, SP>>
    /\ dec.rc = 0
    /\ dec.type = <<97, SP, 98>>
    /\ dec.value = <<120, SP>>
    /\ dec.vlen = 2

\* what the decode loop makes of the text t standing alone in a buffer:
\* [rc, value, vlen]
DecodedText(t, sgn, nx) ==
    LET r == DecodeLoop(Append(t, NUL), 1, Len(t) + 1, 0, sgn, nx)
    IN  [rc |-> r.rc, value |-> SubSeq(r.b, 1, r.vlen), vlen |-> r.vlen]

\* C13: continuation-marker removal.  On every successful decode the
\* markers of the text after the colon(s) and the white space are deleted
\* and the other bytes keep their order, before the length is taken or
\* groups are formed: a plain value is that text without its markers and
\* holds no marker, and a folded base64 text decodes to the bytes and the
\* length its unfolded form decodes to.
C13_MarkerRemoval ==
    (Parsed /\ dec.rc = 0)
        => IF IsDoubleColon(line)
           THEN \A sgn \in BOOLEAN, nx \in AfterBytes :
                   dec = str_parse_line(line, sgn, nx)
                       => LET u == DecodedText(Unmarked(Rest(line)), sgn, nx)
                          IN  /\ u.rc = 0
                              /\ u.value = dec.value
                              /\ u.vlen = dec.vlen
           ELSE /\ dec.value = Unmarked(Rest(line))
                /\ dec.vlen = Len(dec.value)
                /\ \A j \in 1..Len(dec.value) :
                      dec.value[j] # CONTINUED_LINE_MARKER

\* C13 witness: "cn:: QUJDQ" marker marker "UI=", a base64 text folded
\* inside its second group, has been decoded to "ABCAB"
C13_Witness ==
    /\ Parsed
    /\ line = <<99, 110, COLON, COLON, SP, 81, 85, 74, 68, 81,
                CONTINUED_LINE_MARKER, CONTINUED_LINE_MARKER, 85, 73, EQUALS>>
    /\ dec.rc = 0
    /\ dec.value = <<65, 66, 67, 65, 66>>
    /\ dec.vlen = 5

\* C14: missing value.  For every line with a ':' in which only white space
\* or nothing follows the single or double colon, str_parse_line returns -1.
C14_MissingValue ==
    (Parsed /\ HasColon(line) /\ Rest(line) = <<>>) => dec.rc = -1

\* C14 witness: "cn:   " has been rejected
C14_Witness ==
    /\ Parsed
    /\ line = <<99, 110, COLON, SP, SP, SP>>
    /\ dec.rc = -1

\* C15: missing separator.  For every line without a ':', the empty line
\* and a line of white space included, str_parse_line returns -1 and the
\* line buffer holds what it held before the call.
C15_MissingSeparator ==
    (Parsed /\ ~HasColon(line))
        => /\ dec.rc = -1
           /\ dec.b = Append(line, NUL)

\* C15 witness: "noseparatorhere" has been rejected and is still in the
\* buffer
C15_Witness ==
    /\ Parsed
    /\ line = <<110, 111, 115, 101, 112, 97, 114, 97, 116, 111, 114, 104,
                101, 114, 101>>
    /\ dec.rc = -1
    /\ CStr(dec.b, 1) = line

\* C16: attribute-name invariant.  Whenever str_parse_line succeeds, the
\* returned type is non-empty, has no white space at either end and holds
\* no ':'; so a line whose first character after the leading white space is
\* ':' is not decoded successfully.
C16_TypeInvariant ==
    (Parsed /\ dec.rc = 0) => ValidType(dec.type)

\* C17: the in-place base64 decode consumes before it produces.  In every
\* pass of the decode loop the write position byte is at or before the read
\* position p, and no character is read from a cell the loop has already
\* written.
C17_ConsumeBeforeProduce ==
    (Parsed /\ IsDoubleColon(line)) => (dec.ord /\ ~dec.clob)

\* C17 witness: "cn:: QUJDQUI=" has been decoded in two passes, and the
\* decoded bytes lie where the first characters of the text were
C17_Witness ==
    /\ Parsed
    /\ line = <<99, 110, COLON, COLON, SP, 81, 85, 74, 68, 81, 85, 73, EQUALS>>
    /\ dec.rc = 0
    /\ dec.vlen = 5
    /\ SubSeq(dec.b, 6, 11) = <<65, 66, 67, 65, 66, NUL>>

\* C18: decoder memory safety.  For every line, every cell str_parse_line
\* reads or writes, the cell of the final s[vlen] = NUL included, lies
\* between the first cell of the line and the cell of its NUL terminator,
\* and on success vlen is at most the length of the text after the colon(s)
\* and the white space without its markers.
C18_MemorySafety ==
    Parsed
        => /\ dec.hi <= Len(line) + 1
           /\ Len(dec.b) = Len(line) + 1
           /\ dec.rc = 0 => dec.vlen <= Len(Unmarked(Rest(line)))

\* C18 witness: a double-colon text of 4k + 3 characters has been decoded:
\* the 4th character read was the NUL, vlen is the length of the text, and
\* the final NUL was written over the terminator
C18_Witness ==
    /\ Parsed /\ dec.rc = 0
    /\ IsDoubleColon(line)
    /\ Len(Rest(line)) = 7
    /\ Unmarked(Rest(line)) = Rest(line)
    /\ dec.vlen = 6
    /\ dec.hi = Len(line) + 1

\* C19: non-empty value on success.  Whenever str_parse_line returns 0,
\* vlen >= 1, also for a line whose text after the colon(s) and the white
\* space consists of continuation markers only.
C19_NonEmptyValue ==
    (Parsed /\ dec.rc = 0) => dec.vlen >= 1

====
